---- MODULE Spec2Model ----
(***************************************************************************)
(* tail-ws: a file tail reader (watch/watch.go) whose lines are broadcast  *)
(* to the registered websocket connections (broadcast/server.go and the    *)
(* connections registry).                                                  *)
(*                                                                         *)
(* The watched file holds bytes; a line with id i is the two bytes         *)
(* <<i, NL>>.  The goroutines of the program are modelled by program       *)
(* counters: wpc (the goroutine of Server.Watch that calls reader.Watch    *)
(* in a loop, together with the event loop reader.Watch starts and waits   *)
(* for), spc (the goroutine that scans the reader and broadcasts), tpc     *)
(* (the teardown goroutine of Server.Start), one keepalive goroutine per   *)
(* upgraded connection and one write goroutine per element of tasks.       *)
(***************************************************************************)
EXTENDS Integers, Sequences, FiniteSets, TLC

\* ---------------------------------------------------------------- bounds
\* Id of the last line the environment appends to the watched file: when
\* it does nothing else to the file, when it also truncates, removes and
\* renames it, and when connections come and go.
MaxLines == 3
TailLines == 2
ConnLines == 3
\* Id of the last line appended in the runs that follow the program to its
\* shutdown.
StopLines == 1
\* Id of the last line appended in the runs in which peers close their
\* connections.
PeerLines == 2
\* Number of holders of the registry's read lock the model counts.
MaxReaders == 2
\* Number of other file system operations (truncate, remove, recreate,
\* rename, event on another path) the environment performs.
MaxFsOps == 2
\* Size of the bufio.Scanner buffer handed to reader.Read.
BufCap == 4
\* Number of times one transport is closed before the model stops counting.
MaxClose == 2

\* The line terminator bufio.ScanLines splits on.
NL == 0

\* The size the scanner's buffer may grow to before Scan gives up
\* (bufio.MaxScanTokenSize, in proportion to the model's buffer).
MaxTokenSize == 2 * BufCap

\* The upgrade requests the environment makes, one connection each, and
\* the Origin header each presents.
Conns == {"c1", "c2"}
ReqOrigin(c) == IF c = "c1" THEN "A" ELSE "B"

ErrFileDeleted == "ErrFileDeleted"
ErrFileOverwritten == "ErrFileOverwritten"
ErrFileRenamed == "ErrFileRenamed"

VARIABLES
  fsPath,      \* inode found at the watched path, 0 when the path does not exist
  fsData,      \* fsData[i]: the bytes of inode i
  nextLine,    \* id of the next line the environment appends
  lastLine,    \* id of the last line the environment will append
  fsBudget,    \* file system operations other than appends still allowed
  events,      \* watcher.Events: the notifications not yet received
  offset,      \* reader.offset
  seekEnd,     \* reader.seekEnd
  file,        \* reader.file: the inode it reads, its position, whether closed
  readClosed,  \* whether the channel reader.read is closed
  wpc,         \* position of the watch goroutine
  wsize,       \* info.Size() as seen by handleEvent
  werr,        \* error the current reader.Watch call returns
  wreset,      \* whether handleEvent last took its truncation branch
  spc,         \* position of the scan-and-broadcast goroutine
  sbuf,        \* the scanner's buffer
  sstart,      \* scanner: first unprocessed byte of the buffer
  send,        \* scanner: end of the data in the buffer
  rn,          \* n of the file.Read in progress in reader.Read
  serr,        \* scanner: the error reader.Read returned
  sgen,        \* scanner: number of times the buffer was reallocated
  gerr,        \* first error recorded by the errgroup of Server.Watch
  watchDone,   \* whether Server.Watch has returned
  cancelled,   \* whether the shared context of main is cancelled
  origin,      \* Server.origin
  conn,        \* conn[c]: how far HandleWS got for the request of c
  registry,    \* Connections.registry
  readers,     \* number of holders of Connections.mu.RLock
  visited,     \* connections the running broadcast has visited
  btok,        \* the token being broadcast: slice of sbuf and its bytes
  bseq,        \* number of tokens handed to broadcast so far
  bsnap,       \* bsnap[n]: the registry when broadcast n took the lock
  tasks,       \* write goroutines spawned and not yet run
  sent,        \* sent[c]: frames written to c, in order
  closeCount,  \* closeCount[c]: calls of ws.Close() on c
  broken,      \* broken[c]: the peer of c is gone, writes to it fail
  tpc,         \* position of the teardown goroutine of Server.Start
  tvisited,    \* connections Connections.Close has visited
  inbound,     \* inbound[c]: the peer of c sent a close frame, not yet read
  ipc,         \* position of a caller of Connections.Iter whose visitor may stop
  ivisited     \* connections that caller's Iter has visited

fsVars == <<fsPath, fsData, nextLine, lastLine, fsBudget>>
readerVars == <<offset, seekEnd, file, readClosed>>
watchVars == <<wpc, wsize, werr, wreset>>
scanVars == <<spc, sbuf, sstart, send, rn, serr, sgen>>
groupVars == <<gerr, watchDone, cancelled>>
connVars == <<origin, conn, registry, broken, closeCount, inbound>>
bcastVars == <<readers, visited, btok, bseq, bsnap, tasks, sent>>
tearVars == <<tpc, tvisited>>
iterVars == <<ipc, ivisited>>

vars == <<fsPath, fsData, nextLine, lastLine, fsBudget, events, offset, seekEnd, file,
          readClosed, wpc, wsize, werr, wreset, spc, sbuf, sstart, send, rn, serr, sgen,
          gerr, watchDone, cancelled, origin, conn, registry,
          readers, visited, btok, bseq, bsnap, tasks, sent, closeCount,
          broken, tpc, tvisited, inbound, ipc, ivisited>>

Min(a, b) == IF a < b THEN a ELSE b

\* The two bytes of the line with id i.
LineBytes(i) == <<i, NL>>

\* The bytes of the k lines with ids i, i + 1, ...
Lines(i, k) == [j \in 1..(2 * k) |-> IF j % 2 = 1 THEN i + (j - 1) \div 2 ELSE NL]

NoFile == [ino |-> 0, pos |-> 0, closed |-> FALSE]
NoTok == [lo |-> 0, n |-> 0, gen |-> 0, val |-> <<>>]

Ev(op, onTarget) == [op |-> op, target |-> onTarget]

\* ------------------------------------------------------------ initial state
\* The state in which the watched file holds k lines, the allowed origin is
\* o, lines up to id lines and fs other file system operations are to come and the connections reg
\* have been registered, nothing else having happened: Server.Watch builds
\* its reader with NewReader(SeekEnd()) and, when started, reader.Watch has
\* opened the file at its end and waits for the first notification.
InitWith(k, o, lines, fs, reg, started) ==
  /\ fsPath = 1
  /\ fsData = <<IF k = 1 THEN LineBytes(1) ELSE <<>> >>
  /\ nextLine = k + 1
  /\ lastLine = lines
  /\ fsBudget = fs
  /\ events = <<>>
  /\ offset = 0
  /\ seekEnd = TRUE
  /\ file = IF started THEN [ino |-> 1, pos |-> 2 * k, closed |-> FALSE]
            ELSE NoFile
  /\ readClosed = FALSE
  /\ wpc = IF started THEN "select" ELSE "start"
  /\ wsize = 0
  /\ werr = "nil"
  /\ wreset = FALSE
  /\ spc = "scan"
  /\ sbuf = [i \in 1..BufCap |-> NL]
  /\ sstart = 0
  /\ send = 0
  /\ rn = 0
  /\ serr = "nil"
  /\ sgen = 0
  /\ gerr = "nil"
  /\ watchDone = FALSE
  /\ cancelled = FALSE
  /\ origin = o
  /\ conn = [c \in Conns |-> IF c \in reg THEN "registered" ELSE "none"]
  /\ registry = reg
  /\ readers = 0
  /\ visited = {}
  /\ btok = NoTok
  /\ bseq = 0
  /\ bsnap = <<>>
  /\ tasks = {}
  /\ sent = [c \in Conns |-> <<>>]
  /\ closeCount = [c \in Conns |-> 0]
  /\ broken = [c \in Conns |-> FALSE]
  /\ tpc = "wait"
  /\ tvisited = {}
  /\ inbound = [c \in Conns |-> FALSE]
  /\ ipc = "idle"
  /\ ivisited = {}

\* The program starts: the watched file exists, empty or holding one line,
\* no connection has been made, the allowed origin is the one configured.
Init == \E k \in 0..1, o \in {"", "A"} : InitWith(k, o, MaxLines, MaxFsOps, {}, FALSE)

\* ------------------------------------------------- the file system (environment)
\* An fsnotify watcher on the directory exists: between watcher.Add and the
\* deferred watcher.Close() of reader.Watch.
Watching == wpc \in {"select", "cmp", "send", "ret"}

\* The notifications pending once the kernel has reported e.
Emit(e) == IF Watching THEN Append(events, e) ELSE events

\* One write(2) that appends k whole lines: one Write notification.
AppendLines(k) ==
  /\ fsPath # 0
  /\ nextLine + k - 1 <= lastLine
  /\ fsData' = [fsData EXCEPT ![fsPath] = @ \o Lines(nextLine, k)]
  /\ nextLine' = nextLine + k
  /\ events' = Emit(Ev("Write", TRUE))
  /\ UNCHANGED <<fsPath, lastLine, fsBudget>>

FsAppend == \E k \in 1..(lastLine - nextLine + 1) : AppendLines(k)

\* truncate(2) to s bytes, s below the present size: one Write notification.
FsTruncate ==
  /\ fsPath # 0
  /\ fsBudget > 0
  /\ \E s \in 0..(Len(fsData[fsPath]) - 1) :
       fsData' = [fsData EXCEPT ![fsPath] = SubSeq(@, 1, s)]
  /\ fsBudget' = fsBudget - 1
  /\ events' = Emit(Ev("Write", TRUE))
  /\ UNCHANGED <<fsPath, nextLine, lastLine>>

\* unlink(2): the inode stays readable through the handles open on it.
FsRemove ==
  /\ fsPath # 0
  /\ fsBudget > 0
  /\ fsPath' = 0
  /\ fsBudget' = fsBudget - 1
  /\ events' = Emit(Ev("Remove", TRUE))
  /\ UNCHANGED <<fsData, nextLine, lastLine>>

\* A new, empty file is created under the watched path.
FsRecreate ==
  /\ fsPath = 0
  /\ fsBudget > 0
  /\ fsData' = Append(fsData, <<>>)
  /\ fsPath' = Len(fsData) + 1
  /\ fsBudget' = fsBudget - 1
  /\ events' = Emit(Ev("Create", TRUE))
  /\ UNCHANGED <<nextLine, lastLine>>

\* rename(2) of the watched file to another name.
FsRename ==
  /\ fsPath # 0
  /\ fsBudget > 0
  /\ fsPath' = 0
  /\ fsBudget' = fsBudget - 1
  /\ events' = Emit(Ev("Rename", TRUE))
  /\ UNCHANGED <<fsData, nextLine, lastLine>>

\* Something happens to another file of the watched directory.
FsOther ==
  /\ fsBudget > 0
  /\ fsBudget' = fsBudget - 1
  /\ \E op \in {"Write", "Remove", "Rename"} :
       events' = Emit(Ev(op, FALSE))
  /\ UNCHANGED <<fsPath, fsData, nextLine, lastLine>>

restVars == <<readerVars, watchVars, scanVars, groupVars, connVars,
              bcastVars, tearVars, iterVars>>

AppendStep == FsAppend /\ UNCHANGED restVars

FsStep ==
  /\ (FsTruncate \/ FsRemove \/ FsRecreate \/ FsRename \/ FsOther)
  /\ UNCHANGED restVars

\* ------------------------------------------------------------ reader.Watch
\* The context reader.Watch's event loop selects on: derived from the
\* errgroup context of Server.Watch, itself derived from main's.
CtxDone == cancelled \/ gerr # "nil"

\* openFile: the position the new handle on inode ino is sought to.
openFile(ino) ==
  [ino |-> ino,
   pos |-> IF offset > 0 THEN offset
           ELSE IF seekEnd THEN Len(fsData[ino])
           ELSE 0,
   closed |-> FALSE]

\* Server.Watch calls r.Watch, which opens the file.
WatchOpen ==
  /\ wpc = "start"
  /\ IF fsPath = 0
     THEN /\ werr' = "ErrOpen"
          /\ wpc' = "loop"
          /\ UNCHANGED file
     ELSE /\ file' = openFile(fsPath)
          /\ werr' = "nil"
          /\ wpc' = "add"
  /\ UNCHANGED <<fsVars, iterVars, events, offset, seekEnd, readClosed, wsize, wreset,
                 scanVars, groupVars, connVars, bcastVars, tearVars>>

\* reader.Watch creates the watcher, adds the directory to it and starts
\* the event loop.
WatchAdd ==
  /\ wpc = "add"
  /\ wpc' = "select"
  /\ UNCHANGED <<fsVars, iterVars, events, readerVars, wsize, wreset, werr, scanVars,
                 groupVars, connVars, bcastVars, tearVars>>

\* handleEvent on a Remove event: which error, given whether the path exists.
handleRemove(exists) ==
  IF ~exists THEN ErrFileDeleted ELSE ErrFileOverwritten

\* handleEvent, up to and including os.Stat: the error it returns ("nil"
\* for none) for an event with operation op.
handleEventErr(op) ==
  CASE op = "Remove" -> handleRemove(fsPath # 0)
    [] op = "Rename" -> ErrFileRenamed
    [] op = "Write" /\ fsPath = 0 -> "ErrStat"
    [] OTHER -> "nil"

\* The event loop receives one event; events of other paths are skipped.
WatchEvent ==
  /\ wpc = "select"
  /\ events # <<>>
  /\ events' = Tail(events)
  /\ LET e == Head(events) IN
       IF ~e.target
       THEN UNCHANGED <<wpc, wsize, wreset, werr>>
       ELSE IF handleEventErr(e.op) # "nil"
       THEN /\ werr' = handleEventErr(e.op)
            /\ wpc' = "ret"
            /\ UNCHANGED <<wsize, wreset>>
       ELSE IF e.op = "Write"
       THEN /\ wsize' = Len(fsData[fsPath])
            /\ wpc' = "cmp"
            /\ UNCHANGED <<werr, wreset>>
       ELSE UNCHANGED <<wpc, wsize, wreset, werr>>
  /\ UNCHANGED <<fsVars, iterVars, readerVars, scanVars, groupVars, connVars, bcastVars,
                 tearVars>>

\* The event loop sees its context done and returns nil.
WatchCtxDone ==
  /\ wpc = "select"
  /\ CtxDone
  /\ werr' = "nil"
  /\ wpc' = "ret"
  /\ UNCHANGED <<fsVars, iterVars, events, readerVars, wsize, wreset, scanVars, groupVars,
                 connVars, bcastVars, tearVars>>

\* A test for truncation that misses a file cut exactly to the offset.
TruncatedStrict(size, off) == size < off

\* handleEvent's test for a truncated file.
Truncated(size, off) == size <= off

\* handleEvent on a Write event, after os.Stat: reset on truncation, then
\* go on to signal the reader unless the truncated file is empty.
HandleWrite ==
  /\ wpc = "cmp"
  /\ IF Truncated(wsize, offset)
     THEN /\ file' = [file EXCEPT !.pos = 0]
          /\ offset' = 0
          /\ wpc' = IF wsize = 0 THEN "select" ELSE "send"
          /\ wreset' = TRUE
     ELSE /\ wpc' = "send"
          /\ wreset' = FALSE
          /\ UNCHANGED <<file, offset>>
  /\ UNCHANGED <<fsVars, iterVars, events, seekEnd, readClosed, wsize, werr, scanVars,
                 groupVars, connVars, bcastVars, tearVars>>

\* r.read <- struct{}{} meets a receive of reader.Read: the channel has no
\* buffer, so both goroutines move together.
Signal ==
  /\ wpc = "send"
  /\ spc \in {"recv1", "recv2"}
  /\ ~readClosed
  /\ wpc' = "select"
  /\ spc' = "fread"
  /\ UNCHANGED <<fsVars, iterVars, events, readerVars, wsize, wreset, werr, sbuf, sstart, send,
                 rn, serr, sgen, groupVars, connVars, bcastVars, tearVars>>

\* reader.Watch returns: its deferred calls close the watcher and the file.
WatchReturn ==
  /\ wpc = "ret"
  /\ file' = [file EXCEPT !.closed = TRUE]
  /\ events' = <<>>
  /\ wpc' = "loop"
  /\ UNCHANGED <<fsVars, iterVars, offset, seekEnd, readClosed, wsize, wreset, werr,
                 scanVars, groupVars, connVars, bcastVars, tearVars>>

\* The loop of Server.Watch: watch again after ErrFileOverwritten, else
\* return the error (deferred r.Close(), then the errgroup records it).
WatchLoop ==
  /\ wpc = "loop"
  /\ IF werr = ErrFileOverwritten
     THEN /\ wpc' = "start"
          /\ UNCHANGED <<readClosed, gerr>>
     ELSE /\ wpc' = "done"
          /\ readClosed' = TRUE
          /\ gerr' = IF gerr = "nil" THEN werr ELSE gerr
  /\ UNCHANGED <<fsVars, iterVars, events, offset, seekEnd, file, wsize, wreset, werr, scanVars,
                 watchDone, cancelled, connVars, bcastVars, tearVars>>

\* --------------------------------------------- bufio.Scanner over reader.Read
\* The unprocessed bytes of the scanner's buffer.
Data == [i \in 1..(send - sstart) |-> sbuf[sstart + i]]

\* Position of the first line terminator in d, 0 when there is none.
NLPos(d) ==
  IF \E i \in 1..Len(d) : d[i] = NL
  THEN CHOOSE i \in 1..Len(d) : d[i] = NL /\ \A j \in 1..(i - 1) : d[j] # NL
  ELSE 0

\* bufio.ScanLines: how far to advance and the length of the token found
\* (has = FALSE: no token, more data is asked for).
ScanLines(d, atEOF) ==
  IF atEOF /\ Len(d) = 0 THEN [adv |-> 0, has |-> FALSE, n |-> 0]
  ELSE IF NLPos(d) > 0 THEN [adv |-> NLPos(d), has |-> TRUE, n |-> NLPos(d) - 1]
  ELSE IF atEOF THEN [adv |-> Len(d), has |-> TRUE, n |-> Len(d)]
  ELSE [adv |-> 0, has |-> FALSE, n |-> 0]

\* The goroutine's result scanner.Err(): nil after a clean end of stream.
ScanErr(e) == IF e = "EOF" THEN "nil" ELSE e

\* The buffer after copy(s.buf, s.buf[s.start:s.end]) into one of length len.
Shifted(len) ==
  [i \in 1..len |-> IF i <= send - sstart THEN sbuf[sstart + i]
                    ELSE IF i <= Len(sbuf) /\ len = Len(sbuf) THEN sbuf[i]
                    ELSE NL]

\* scanner.Scan up to the point where it returns a token, returns false or
\* calls reader.Read; a token goes to Server.broadcast.
Scan ==
  /\ spc = "scan"
  /\ LET atEOF == serr # "nil"
         r == ScanLines(Data, atEOF)
         shift == sstart > 0 /\ (send = Len(sbuf) \/ sstart > Len(sbuf) \div 2)
         full == IF shift THEN send - sstart = Len(sbuf) ELSE send = Len(sbuf)
     IN
       IF (send > sstart \/ atEOF) /\ r.has
       THEN /\ btok' = [lo |-> sstart, n |-> r.n, gen |-> sgen,
                        val |-> SubSeq(Data, 1, r.n)]
            /\ sstart' = sstart + r.adv
            /\ bseq' = bseq + 1
            /\ spc' = "bcast"
            /\ UNCHANGED <<sbuf, send, sgen, gerr, serr>>
       ELSE IF atEOF
       THEN /\ sstart' = 0
            /\ send' = 0
            /\ spc' = "done"
            /\ gerr' = IF gerr = "nil" THEN ScanErr(serr) ELSE gerr
            /\ UNCHANGED <<sbuf, sgen, btok, bseq, serr>>
       ELSE IF full /\ Len(sbuf) >= MaxTokenSize
       THEN /\ spc' = "done"
            /\ serr' = "ErrTooLong"
            /\ gerr' = IF gerr = "nil" THEN "ErrTooLong" ELSE gerr
            /\ UNCHANGED <<sbuf, sstart, send, sgen, btok, bseq>>
       ELSE /\ spc' = "recv1"
            /\ IF full
               THEN /\ sbuf' = Shifted(Min(2 * Len(sbuf), MaxTokenSize))
                    /\ sgen' = sgen + 1
                    /\ send' = send - sstart
                    /\ sstart' = 0
               ELSE IF shift
               THEN /\ sbuf' = Shifted(Len(sbuf))
                    /\ send' = send - sstart
                    /\ sstart' = 0
                    /\ UNCHANGED sgen
               ELSE UNCHANGED <<sbuf, sstart, send, sgen>>
            /\ UNCHANGED <<gerr, btok, bseq, serr>>
  /\ UNCHANGED rn
  /\ UNCHANGED <<fsVars, iterVars, events, readerVars, watchVars, watchDone, cancelled,
                 connVars, readers, visited, bsnap, tasks, sent, tearVars>>

\* A Read that reports no error when it finds the channel closed.
RecvErrNil(ok) == "nil"

\* The error reader.Read returns after `_, ok := <-r.read` without going on
\* to read the file ("nil": it goes on).
RecvErr(ok) == IF ~ok THEN "EOF" ELSE "nil"

\* reader.Read finds the channel closed: it returns 0, io.EOF.
ReadClosed ==
  /\ spc \in {"recv1", "recv2"}
  /\ readClosed
  /\ serr' = RecvErr(~readClosed)
  /\ spc' = "scan"
  /\ UNCHANGED <<fsVars, iterVars, events, readerVars, watchVars, sbuf, sstart, send, rn,
                 sgen, groupVars, connVars, bcastVars, tearVars>>

\* Number of bytes one r.file.Read(b) returns, b being the free part of
\* the scanner's buffer.
FileReadN ==
  LET avail == Len(fsData[file.ino]) - file.pos IN
    IF avail > 0 THEN Min(Len(sbuf) - send, avail) ELSE 0

\* reader.Read: n, err := r.file.Read(b).
ReadFile ==
  /\ spc = "fread"
  /\ IF file.closed
     THEN /\ serr' = "ErrClosed"
          /\ spc' = "scan"
          /\ UNCHANGED <<file, sbuf, rn>>
     ELSE IF FileReadN > 0
     THEN /\ sbuf' = [i \in 1..Len(sbuf) |->
                        IF i > send /\ i <= send + FileReadN
                        THEN fsData[file.ino][file.pos + (i - send)]
                        ELSE sbuf[i]]
          /\ file' = [file EXCEPT !.pos = @ + FileReadN]
          /\ rn' = FileReadN
          /\ spc' = "addoff"
          /\ UNCHANGED serr
     ELSE /\ spc' = "recv2"
          /\ UNCHANGED <<file, sbuf, rn, serr>>
  /\ UNCHANGED <<fsVars, iterVars, events, offset, seekEnd, readClosed, watchVars,
                 sstart, send, sgen, groupVars, connVars, bcastVars, tearVars>>

\* reader.Read: r.offset += int64(n); return n, nil (the scanner then
\* extends its data by n).
ReadAddOffset ==
  /\ spc = "addoff"
  /\ offset' = offset + rn
  /\ send' = send + rn
  /\ rn' = 0
  /\ spc' = "scan"
  /\ UNCHANGED <<fsVars, iterVars, events, seekEnd, file, readClosed, watchVars, sbuf,
                 sstart, serr, sgen, groupVars, connVars, bcastVars, tearVars>>

\* ------------------------------------------------- the connections registry
\* A registry whose writers do not wait for the readers of the lock.
LockIgnored == TRUE

\* Connections.mu.Lock() can be taken: nobody holds the read lock (the
\* write lock is only held inside Add and Delete, which are single steps).
LockFree == readers = 0

\* An upgrader that accepts every origin, whatever is configured.
CheckOriginAny(o) == TRUE

\* upgrader.CheckOrigin as NewServer sets it, for a request with Origin o.
CheckOrigin(o) == IF origin # "" THEN origin = o ELSE TRUE

\* ws.Close() on connection c, counted.
Closed(c) == [closeCount EXCEPT ![c] = Min(@ + 1, MaxClose)]

\* A write or a ping on c fails: the peer is gone or c was closed.
WriteFails(c) == broken[c] \/ closeCount[c] > 0

\* HandleWS up to the start of the keepalive goroutine, for the well-formed
\* upgrade request of c: Upgrade fails on a refused origin.
Upgrade(c) ==
  /\ conn[c] = "none"
  /\ tpc # "done"
  /\ conn' = [conn EXCEPT ![c] =
                IF CheckOrigin(ReqOrigin(c)) THEN "upgraded" ELSE "rejected"]
  /\ UNCHANGED <<fsVars, iterVars, events, readerVars, watchVars, scanVars, groupVars,
                 origin, inbound, registry, broken, closeCount, bcastVars, tearVars>>

\* HandleWS's last statement, s.connections.Add(ws).
Add(c) ==
  /\ conn[c] = "upgraded"
  /\ LockFree
  /\ registry' = registry \cup {c}
  /\ conn' = [conn EXCEPT ![c] = "registered"]
  /\ UNCHANGED <<fsVars, iterVars, events, readerVars, watchVars, scanVars, groupVars,
                 origin, inbound, broken, closeCount, bcastVars, tearVars>>

\* Connections.Delete, the body of the close handler HandleWS installs.
\* The handler runs inside a read of the connection; the server starts no
\* goroutine that reads, so no step of the program performs it.
Delete(c) ==
  /\ c \in registry
  /\ LockFree
  /\ registry' = registry \ {c}
  /\ closeCount' = Closed(c)
  /\ UNCHANGED <<fsVars, iterVars, events, readerVars, watchVars, scanVars, groupVars,
                 origin, inbound, conn, broken, bcastVars, tearVars>>

\* One tick of the keepalive goroutine of c: a failed ping closes c and the
\* goroutine keeps ticking.
KeepaliveTick(c) ==
  /\ conn[c] \in {"upgraded", "registered"}
  /\ WriteFails(c)
  /\ closeCount' = Closed(c)
  /\ UNCHANGED <<fsVars, iterVars, events, readerVars, watchVars, scanVars, groupVars,
                 origin, inbound, conn, registry, broken, bcastVars, tearVars>>

\* The peer of c goes away (environment).
Break(c) ==
  /\ conn[c] \in {"upgraded", "registered"}
  /\ ~broken[c]
  /\ broken' = [broken EXCEPT ![c] = TRUE]
  /\ UNCHANGED <<fsVars, iterVars, events, readerVars, watchVars, scanVars, groupVars,
                 origin, inbound, conn, registry, closeCount, bcastVars, tearVars>>

\* ------------------------------------------------------- Server.broadcast
\* Iter takes the read lock for the broadcast of the token just scanned.
BroadcastLock ==
  /\ spc = "bcast"
  /\ readers' = readers + 1
  /\ visited' = {}
  /\ bsnap' = Append(bsnap, registry)
  /\ spc' = "iter"
  /\ UNCHANGED <<fsVars, iterVars, events, readerVars, watchVars, sbuf, sstart, send, rn,
                 serr, sgen, groupVars, connVars, btok, bseq, tasks, sent,
                 tearVars>>

\* The write goroutine broadcast starts for connection c: it holds the
\* slice tx of the scanner's buffer (val: its bytes when it was scanned).
Task(c) == [conn |-> c, seq |-> bseq, lo |-> btok.lo, n |-> btok.n,
            gen |-> btok.gen, val |-> btok.val]

\* Iter calls fn on one more member: broadcast starts a write goroutine.
IterVisit ==
  /\ spc = "iter"
  /\ \E c \in registry \ visited :
       /\ tasks' = tasks \cup {Task(c)}
       /\ visited' = visited \cup {c}
  /\ UNCHANGED <<fsVars, iterVars, events, readerVars, watchVars, scanVars, groupVars,
                 connVars, readers, btok, bseq, bsnap, sent, tearVars>>

\* Iter has visited every member: it releases the read lock and returns.
IterUnlock ==
  /\ spc = "iter"
  /\ registry \ visited = {}
  /\ readers' = readers - 1
  /\ spc' = "scan"
  /\ UNCHANGED <<fsVars, iterVars, events, readerVars, watchVars, sbuf, sstart, send, rn,
                 serr, sgen, groupVars, connVars, visited, btok, bseq, bsnap,
                 tasks, sent, tearVars>>

\* The bytes of tx when the write goroutine t runs: the scanner's buffer
\* as it is now, unless the scanner has left that buffer for a new one.
Payload(t) ==
  IF t.gen = sgen THEN [i \in 1..t.n |-> sbuf[t.lo + i]] ELSE t.val

\* A write goroutine runs: ws.WriteMessage, and ws.Close() when it fails.
WriteTask ==
  /\ \E t \in tasks :
       /\ tasks' = tasks \ {t}
       /\ IF WriteFails(t.conn)
          THEN /\ closeCount' = Closed(t.conn)
               /\ UNCHANGED sent
          ELSE /\ sent' = [sent EXCEPT ![t.conn] =
                             Append(@, [seq |-> t.seq, val |-> t.val,
                                        payload |-> Payload(t)])]
               /\ UNCHANGED closeCount
  /\ UNCHANGED <<fsVars, iterVars, events, readerVars, watchVars, scanVars, groupVars,
                 origin, inbound, conn, registry, broken, readers, visited,
                 btok, bseq, bsnap, tearVars>>

\* ------------------------------------------------- lifetime and Server.Start
\* The listener fails (environment): Start returns the error and main's
\* errgroup cancels the shared context.
ListenerFail ==
  /\ ~cancelled
  /\ tpc = "wait"
  /\ cancelled' = TRUE
  /\ UNCHANGED <<fsVars, iterVars, events, readerVars, watchVars, scanVars, gerr,
                 watchDone, connVars, bcastVars, tearVars>>

\* Server.Watch returns once both its goroutines have: g.Wait() gives the
\* first error recorded, and an error cancels main's context.
ServerWatchReturn ==
  /\ spc = "done"
  /\ wpc = "done"
  /\ ~watchDone
  /\ watchDone' = TRUE
  /\ cancelled' = (cancelled \/ gerr # "nil")
  /\ UNCHANGED <<fsVars, iterVars, events, readerVars, watchVars, scanVars, gerr,
                 connVars, bcastVars, tearVars>>

\* The teardown goroutine of Start: <-ctx.Done(), then Connections.Close
\* takes the read lock in Iter.
TeardownLock ==
  /\ tpc = "wait"
  /\ cancelled
  /\ readers' = readers + 1
  /\ tvisited' = {}
  /\ tpc' = "iter"
  /\ UNCHANGED <<fsVars, iterVars, events, readerVars, watchVars, scanVars, groupVars,
                 connVars, visited, btok, bseq, bsnap, tasks, sent>>

\* Connections.Close closes one more member.
TeardownVisit ==
  /\ tpc = "iter"
  /\ \E c \in registry \ tvisited :
       /\ closeCount' = Closed(c)
       /\ tvisited' = tvisited \cup {c}
  /\ UNCHANGED <<fsVars, iterVars, events, readerVars, watchVars, scanVars, groupVars,
                 origin, inbound, conn, registry, broken, bcastVars, tpc>>

\* Iter releases the read lock; the goroutine then closes the HTTP server.
TeardownUnlock ==
  /\ tpc = "iter"
  /\ registry \ tvisited = {}
  /\ readers' = readers - 1
  /\ tpc' = "done"
  /\ UNCHANGED <<fsVars, iterVars, events, readerVars, watchVars, scanVars, groupVars,
                 connVars, visited, btok, bseq, bsnap, tasks, sent, tvisited>>

\* The keepalive goroutine HandleWS started for c is running: it returns
\* only when the context of c is done, and cancel() is only called by the
\* close handler, which no step of the program runs.
KeepaliveRunning(c) == conn[c] \in {"upgraded", "registered"}

\* The peer of c sends a close frame (environment).  It stays unread: the
\* close handler runs inside a read of the connection and HandleWS returns
\* without starting one.
PeerClose(c) ==
  /\ conn[c] = "registered"
  /\ ~inbound[c]
  /\ ~broken[c]
  /\ inbound' = [inbound EXCEPT ![c] = TRUE]
  /\ UNCHANGED <<fsVars, iterVars, events, readerVars, watchVars, scanVars,
                 groupVars, origin, conn, registry, broken, closeCount,
                 bcastVars, tearVars>>

\* ------------------------------------------ Connections.Iter, any visitor
\* Some caller invokes Iter with a visitor of its own: c.mu.RLock().
IterCall ==
  /\ ipc = "idle"
  /\ readers < MaxReaders
  /\ readers' = readers + 1
  /\ ivisited' = {}
  /\ ipc' = "iter"
  /\ UNCHANGED <<fsVars, events, readerVars, watchVars, scanVars, groupVars,
                 connVars, visited, btok, bseq, bsnap, tasks, sent, tearVars>>

\* Iter calls fn on one more member; when fn returns false Iter returns at
\* once, without reaching c.mu.RUnlock().
IterFn ==
  /\ ipc = "iter"
  /\ \E c \in registry \ ivisited, continue \in BOOLEAN :
       /\ ivisited' = ivisited \cup {c}
       /\ ipc' = IF continue THEN "iter" ELSE "idle"
  /\ UNCHANGED <<fsVars, events, readerVars, watchVars, scanVars, groupVars,
                 connVars, bcastVars, tearVars>>

\* Iter has visited every member: c.mu.RUnlock() and return.
IterReturn ==
  /\ ipc = "iter"
  /\ registry \ ivisited = {}
  /\ readers' = readers - 1
  /\ ipc' = "idle"
  /\ UNCHANGED <<fsVars, events, readerVars, watchVars, scanVars, groupVars,
                 connVars, visited, btok, bseq, bsnap, tasks, sent, tearVars,
                 ivisited>>

\* ------------------------------------------------------------ specification
\* HandleWS serves the request of some connection.
HandleWS == \E c \in Conns : Upgrade(c) \/ Add(c)

\* A keepalive goroutine ticks, or a peer goes away.
PeerStep == \E c \in Conns : KeepaliveTick(c) \/ Break(c)

ConnStep == HandleWS \/ PeerStep

Next ==
  \/ AppendStep \/ FsStep
  \/ WatchOpen \/ WatchAdd \/ WatchEvent \/ WatchCtxDone \/ HandleWrite \/ Signal
  \/ WatchReturn \/ WatchLoop
  \/ Scan \/ ReadClosed \/ ReadFile \/ ReadAddOffset
  \/ BroadcastLock \/ IterVisit \/ IterUnlock \/ WriteTask
  \/ ConnStep
  \/ ListenerFail \/ ServerWatchReturn
  \/ TeardownLock \/ TeardownVisit \/ TeardownUnlock

Spec == Init /\ [][Next]_vars

\* The tail reader while the watched file is appended to, truncated,
\* removed, recreated and renamed, nobody being connected.
InitTail == \E k \in 0..1 : InitWith(k, "", TailLines, MaxFsOps, {}, FALSE)

NextTail ==
  \/ AppendStep \/ FsStep
  \/ WatchOpen \/ WatchAdd \/ WatchEvent \/ WatchCtxDone \/ HandleWrite \/ Signal
  \/ WatchReturn \/ WatchLoop
  \/ Scan \/ ReadClosed \/ ReadFile \/ ReadAddOffset
  \/ BroadcastLock \/ IterUnlock
  \/ ServerWatchReturn

SpecTail == InitTail /\ [][NextTail]_vars

\* The tail reader and the broadcast of its lines to one connection that
\* was registered before the first line, from the moment reader.Watch
\* waits for notifications on the empty file, which is only appended to.
InitAppend == InitWith(0, "", MaxLines, 0, {"c1"}, TRUE)

NextAppend ==
  \/ AppendStep
  \/ WatchEvent \/ HandleWrite \/ Signal
  \/ Scan \/ ReadFile \/ ReadAddOffset
  \/ BroadcastLock \/ IterVisit \/ IterUnlock \/ WriteTask

SpecAppend == InitAppend /\ [][NextAppend]_vars

\* The registry and the broadcast while connections come and break: the
\* watched file holds one line at the start and is only appended to.
InitConn == InitWith(1, "", ConnLines, 0, {}, FALSE)

NextConn ==
  \/ AppendStep
  \/ WatchOpen \/ WatchAdd \/ WatchEvent \/ HandleWrite \/ Signal
  \/ Scan \/ ReadFile \/ ReadAddOffset
  \/ BroadcastLock \/ IterVisit \/ IterUnlock \/ WriteTask
  \/ ConnStep

SpecConn == InitConn /\ [][NextConn]_vars

\* The registry and the broadcast while upgrade requests arrive, with and
\* without an allowed origin configured, and no peer goes away: the watched
\* file holds one line at the start and is only appended to.
InitJoin == \E o \in {"", "A"} : InitWith(1, o, ConnLines, 0, {}, FALSE)

NextJoin ==
  \/ AppendStep
  \/ WatchOpen \/ WatchAdd \/ WatchEvent \/ HandleWrite \/ Signal
  \/ Scan \/ ReadFile \/ ReadAddOffset
  \/ BroadcastLock \/ IterVisit \/ IterUnlock \/ WriteTask
  \/ HandleWS

SpecJoin == InitJoin /\ [][NextJoin]_vars

\* The whole life of the program up to its shutdown, for a file that gets
\* one line and may be removed and recreated: requests arrive, the
\* listener may fail, and every goroutine that can take a step eventually
\* takes it.
InitStop == InitWith(0, "", StopLines, MaxFsOps, {}, FALSE)

NextStop ==
  \/ AppendStep \/ FsStep
  \/ WatchOpen \/ WatchAdd \/ WatchEvent \/ WatchCtxDone \/ HandleWrite \/ Signal
  \/ WatchReturn \/ WatchLoop
  \/ Scan \/ ReadClosed \/ ReadFile \/ ReadAddOffset
  \/ BroadcastLock \/ IterVisit \/ IterUnlock \/ WriteTask
  \/ HandleWS
  \/ (\E c \in Conns : KeepaliveTick(c))
  \/ ListenerFail \/ ServerWatchReturn
  \/ TeardownLock \/ TeardownVisit \/ TeardownUnlock

\* The Go scheduler runs every goroutine that is able to run.
FairStop ==
  /\ WF_vars(WatchOpen) /\ WF_vars(WatchAdd) /\ WF_vars(WatchEvent)
  /\ WF_vars(WatchCtxDone) /\ WF_vars(HandleWrite) /\ WF_vars(Signal)
  /\ WF_vars(WatchReturn) /\ WF_vars(WatchLoop)
  /\ WF_vars(Scan) /\ WF_vars(ReadClosed) /\ WF_vars(ReadFile)
  /\ WF_vars(ReadAddOffset)
  /\ WF_vars(BroadcastLock) /\ WF_vars(IterVisit) /\ WF_vars(IterUnlock)
  /\ WF_vars(WriteTask)
  /\ \A c \in Conns : WF_vars(Add(c)) /\ WF_vars(KeepaliveTick(c))
  /\ WF_vars(ServerWatchReturn)
  /\ WF_vars(TeardownLock) /\ WF_vars(TeardownVisit) /\ WF_vars(TeardownUnlock)

SpecStop == InitStop /\ [][NextStop]_vars /\ FairStop

\* The registry and the broadcast while connections come, break and are
\* closed by their peers, every goroutine that can take a step eventually
\* taking it: the watched file holds one line at the start and is only
\* appended to.
InitPeer == InitWith(1, "", PeerLines, 0, {}, FALSE)

NextPeer ==
  \/ AppendStep
  \/ WatchOpen \/ WatchAdd \/ WatchEvent \/ HandleWrite \/ Signal
  \/ Scan \/ ReadFile \/ ReadAddOffset
  \/ BroadcastLock \/ IterVisit \/ IterUnlock \/ WriteTask
  \/ ConnStep
  \/ (\E c \in Conns : PeerClose(c))

FairPeer ==
  /\ WF_vars(WatchOpen) /\ WF_vars(WatchAdd) /\ WF_vars(WatchEvent)
  /\ WF_vars(HandleWrite) /\ WF_vars(Signal)
  /\ WF_vars(Scan) /\ WF_vars(ReadFile) /\ WF_vars(ReadAddOffset)
  /\ WF_vars(BroadcastLock) /\ WF_vars(IterVisit) /\ WF_vars(IterUnlock)
  /\ WF_vars(WriteTask)
  /\ \A c \in Conns : WF_vars(Add(c)) /\ WF_vars(KeepaliveTick(c))

SpecPeer == InitPeer /\ [][NextPeer]_vars /\ FairPeer

\* The registry under its own operations, from any set of registered
\* connections: connections are added, break and are removed while some
\* caller iterates the registry with a visitor that may stop.
InitIter == \E reg \in SUBSET Conns : InitWith(0, "", 0, 0, reg, FALSE)

NextIter ==
  \/ ConnStep
  \/ (\E c \in Conns : Delete(c))
  \/ IterCall \/ IterFn \/ IterReturn

SpecIter == InitIter /\ [][NextIter]_vars

\* ------------------------------------------------------------------ claims
\* The ids of the lines among the values of the frames written to c.
FrameVals(c) == {sent[c][i].val : i \in 1..Len(sent[c])}

\* C1: per-connection ordering.  On every connection the frames are written
\* in the order in which their lines were handed to broadcast: a frame of a
\* later line is never written before the frame of an earlier one.
C1_Ordering ==
  \A c \in Conns : \A i, j \in 1..Len(sent[c]) :
    i < j => sent[c][i].seq < sent[c][j].seq

\* C2: no duplicate delivery.  While the watched file has only been
\* appended to, the connection registered throughout is sent each appended
\* line at most once: no two of its frames carry the same line, and it has
\* no more frames than lines were appended.
C2_NoDuplicate ==
  /\ \A i, j \in 1..Len(sent["c1"]) :
       i # j => sent["c1"][i].val # sent["c1"][j].val
  /\ Len(sent["c1"]) <= nextLine - 1

\* The program has nothing left to do until the file is written again: no
\* notification is pending, the event loop waits in its select, reader.Read
\* waits for a readiness signal and no write goroutine is left.
Quiescent ==
  /\ events = <<>>
  /\ wpc = "select"
  /\ spc \in {"recv1", "recv2"}
  /\ tasks = {}

\* C3: eventual delivery.  Every complete line appended while the
\* subscriber is connected is dispatched to it without a further write to
\* the file: once the program has nothing left to do, every appended line
\* has been written to the subscriber.
C3_Delivered ==
  Quiescent => \A i \in 1..(nextLine - 1) : <<i>> \in FrameVals("c1")

\* Line n was dispatched to c: its write goroutine is waiting, has written
\* the frame, or found the transport of c broken or closed.
Dispatched(c, n) ==
  \/ \E t \in tasks : t.conn = c /\ t.seq = n
  \/ \E i \in 1..Len(sent[c]) : sent[c][i].seq = n
  \/ WriteFails(c)

\* C4: late joiners.  A line is only ever dispatched to the connections
\* that were registered when its broadcast took the registry lock, the
\* registry does not change while a broadcast iterates it, and a finished
\* broadcast has dispatched its line to every connection registered when
\* it started.
C4_LateJoiners ==
  /\ \A t \in tasks : t.conn \in bsnap[t.seq]
  /\ \A c \in Conns : \A i \in 1..Len(sent[c]) : c \in bsnap[sent[c][i].seq]
  /\ spc = "iter" => registry = bsnap[bseq]
  /\ \A n \in 1..Len(bsnap) :
       (n < Len(bsnap) \/ spc # "iter") => \A c \in bsnap[n] : Dispatched(c, n)

\* A connection that joined between the first and the second broadcast has
\* been sent the second line.
C4_Witness ==
  \E c \in Conns :
    /\ Len(bsnap) >= 2
    /\ c \notin bsnap[1]
    /\ c \in bsnap[2]
    /\ \E i \in 1..Len(sent[c]) : sent[c][i].seq = 2

C6_ReopenAtZero ==
  [][(wpc = "start" /\ werr = ErrFileOverwritten /\ wpc' = "add")
       => (offset' = 0 /\ file'.pos = 0)]_vars

\* C7: isolation.  A connection whose frame write or keepalive probe has
\* failed, and whose transport was therefore closed, is no longer in the
\* registry.
C7_Isolation ==
  \A c \in Conns : closeCount[c] > 0 => c \notin registry

\* C8: close exactly once.  The transport of a connection is closed at
\* most once, and exactly once when the connection has left the registry.
C8_CloseOnce ==
  \A c \in Conns :
    /\ closeCount[c] <= 1
    /\ (conn[c] = "registered" /\ c \notin registry) => closeCount[c] = 1

\* The request of c presents an origin the configuration allows.
Allowed(c) == origin = "" \/ ReqOrigin(c) = origin

\* C9: origin enforcement.  A request is rejected exactly when an allowed
\* origin is configured and the request presents another one; a rejected
\* request is never in the registry, and a connection in the registry has
\* an allowed origin and has completed the upgrade and keepalive setup.
C9_Origin ==
  \A c \in Conns :
    /\ c \in registry => (Allowed(c) /\ conn[c] = "registered")
    /\ conn[c] = "rejected" => (~Allowed(c) /\ c \notin registry)
    /\ conn[c] \in {"upgraded", "registered"} => Allowed(c)

\* With origin A configured, the request presenting A is registered and
\* the request presenting B was rejected.
C9_Witness ==
  /\ origin = "A"
  /\ "c1" \in registry
  /\ conn["c2"] = "rejected"

\* C10: event classification.  When reader.Watch ended with ErrFileDeleted
\* or ErrFileRenamed, the tail-and-broadcast activity ends with that same
\* error as its result.
C10_Result ==
  (wpc = "done" /\ werr \in {ErrFileDeleted, ErrFileRenamed}) => gerr = werr

\* Every task of the program has returned: the event loop and the loop of
\* Server.Watch, the scanner goroutine with its Read, the teardown
\* goroutine (and with it the listener) and every keepalive goroutine.
Stopped ==
  /\ wpc = "done"
  /\ spc = "done"
  /\ tpc = "done"
  /\ \A c \in Conns : ~KeepaliveRunning(c)

\* C11: termination after cancellation.  Once a lifetime context of the
\* program is cancelled, by the failure of the listener or by the first
\* error of the tail-and-broadcast activity, every task eventually returns.
C11_Terminates == CtxDone ~> Stopped

\* C12: shutdown closes everything.  Once the teardown goroutine has
\* finished, the transport of every connection in the registry has been
\* closed.
C12_AllClosed ==
  tpc = "done" => \A c \in registry : closeCount[c] > 0

\* C13: peer close.  After the peer of a registered connection has sent a
\* close frame, the connection is eventually removed from the registry and
\* its keepalive goroutine eventually cancelled.
C13_PeerClose ==
  \A c \in Conns :
    (inbound[c] /\ c \in registry) ~> (c \notin registry /\ ~KeepaliveRunning(c))

\* C14: payload integrity.  The payload of every frame written to a
\* connection is the line as it was when broadcast was called for it.
C14_Payload ==
  \A c \in Conns : \A i \in 1..Len(sent[c]) : sent[c][i].payload = sent[c][i].val

\* reader.Read is waiting for a readiness signal.
ReadBlocked == spc \in {"recv1", "recv2"}

C16_Offset ==
  [][/\ offset' < offset => (wpc = "cmp" /\ wsize <= offset)
     /\ (wpc = "cmp" /\ wpc' # "cmp") => offset' <= wsize
     /\ (wpc = "start" /\ wpc' = "add") => offset' <= Len(fsData'[file'.ino])]_vars

\* C17: the registry lock is never held across transport I/O.  Whenever
\* the visitor of closeAll closes a transport, nobody holds the registry
\* lock.
C17_NoLockedIO ==
  [][tvisited' # tvisited => readers = 0]_vars

\* C18: early stop keeps the registry usable.  When no iteration of the
\* registry is in progress, nobody holds its lock, so an add or a remove
\* can take it.
C18_Released ==
  (ipc = "idle" /\ spc # "iter" /\ tpc # "iter") => LockFree

\* C19: the offset tracks the read position.  While reader.Watch waits for
\* notifications on the file it opened and Read is not between its
\* file.Read and the update of the offset, the offset is the position of
\* the file handle.
C19_OffsetIsPos ==
  (wpc = "select" /\ ~file.closed /\ spc # "addoff") => offset = file.pos

\* C20: Read never uses a closed handle.  Whenever Read performs its
\* file.Read, the handle it reads from has not been closed.
C20_OpenHandle ==
  [][(spc = "fread" /\ spc' # "fread") => ~file.closed]_vars

====
